---- MODULE Spec2Model ----
(***************************************************************************)
(* The invocation orchestrator ai() of                                     *)
(* packages/core/src/services/ai/index.ts as a state machine.              *)
(*                                                                         *)
(* ai() has no await in its body, so one invocation runs from its first    *)
(* line to its return without another invocation in between.  The body is  *)
(* cut at the calls it makes to its collaborators (applyAllRules,          *)
(* createProvider, the provider adapter, buildTools, streamText or         *)
(* streamObject); each collaborator answers with one of the outcomes its   *)
(* contract allows, or throws.  After ai() has returned, the caller reads  *)
(* the stream of the result.                                               *)
(***************************************************************************)
EXTENDS Integers, Sequences, FiniteSets, TLC

VARIABLES
    \* the arguments of the invocation (index.ts 85-104)
    provider, prompt, originalMessages, originalConfig, schema, output,
    customLanguageModel, aiSdkProvider, abortSignal,
    \* the locals of ai()
    streamText, streamObject, rule, providerAdapterResult, languageModel,
    toolsResult,
    \* where the invocation is, what it returned, what escaped it
    pc, returned, raised,
    \* every call made to a collaborator, in order, with its arguments
    calls,
    \* the exceptions handed to handleAICallAPIError
    handled,
    \* the result object of the streaming backend, and what the caller read
    stream, consumed,
    \* the module-level object DEFAULT_AI_SDK_PROVIDER (index.ts 31-34), which
    \* every invocation reads, and the number of other invocations of ai()
    \* that have run beside this one
    defaultAiSdkProvider, others

args == <<provider, prompt, originalMessages, originalConfig, schema, output,
          customLanguageModel, aiSdkProvider, abortSignal>>
argsButConfig == <<provider, prompt, originalMessages, schema, output,
                   customLanguageModel, aiSdkProvider, abortSignal>>
module == <<defaultAiSdkProvider, others>>
locals == <<streamText, streamObject, rule, providerAdapterResult,
            languageModel, toolsResult>>
vars == <<provider, prompt, originalMessages, originalConfig, schema, output,
          customLanguageModel, aiSdkProvider, abortSignal,
          streamText, streamObject, rule, providerAdapterResult,
          languageModel, toolsResult, pc, returned, raised, calls, handled,
          stream, consumed, defaultAiSdkProvider, others>>

-----------------------------------------------------------------------------
(* Bounds of the model                                                     *)

MaxViolations == 2
MaxChunks == 2
MaxOthers == 1

-----------------------------------------------------------------------------
(* JavaScript values.  Every scalar is a record, so that any two values    *)
(* can be compared; an object is a function from its keys to its values.   *)

Undefined == [undefined |-> TRUE]
Null == [null |-> TRUE]
Str(s) == [str |-> s]
Bool(b) == [bool |-> b]

\* JavaScript truthiness, as `a && b`, `a ? b : c` and `a || b` test it
Truthy(v) == v \notin {Undefined, Null, Bool(FALSE), Str("")}

\* a ?? b
Nullish(v, d) == IF v \in {Undefined, Null} THEN d ELSE v

\* obj.key: undefined when the object has no such key
Get(obj, k) == IF k \in DOMAIN obj THEN obj[k] ELSE Undefined

\* { ...a, ...b }: the keys of both, b's value where both have the key
Spread(a, b) ==
    [k \in (DOMAIN a) \cup (DOMAIN b) |-> IF k \in DOMAIN b THEN b[k] ELSE a[k]]

\* lodash omit(obj, keys)
omit(obj, keys) == [k \in (DOMAIN obj) \ keys |-> obj[k]]

EmptyObject == [k \in {} |-> Undefined]

RECURSIVE Join(_, _)
\* Array.prototype.join
Join(seq, sep) ==
    IF seq = <<>> THEN ""
    ELSE IF Len(seq) = 1 THEN seq[1]
    ELSE seq[1] \o sep \o Join(Tail(seq), sep)

-----------------------------------------------------------------------------
(* Result and ChainError (lib/Result, lib/chainStreamManager/ChainErrors)  *)

AIRunError == "ai_run_error"
AIProviderConfigError == "ai_provider_config_error"
UnknownError == "unknown_error"

ChainError(code, message) == [name |-> "ChainError", code |-> code, message |-> message]
ResultOk(v) == [ok |-> TRUE, value |-> v, error |-> Undefined]
ResultError(e) == [ok |-> FALSE, value |-> Undefined, error |-> e]

-----------------------------------------------------------------------------
(* The arguments an invocation may be given                                *)

KnownProviders == {Str("openai")}

ProviderDescriptors ==
    { [provider |-> Str("openai"), token |-> Str("sk-test"), url |-> Null],
      [provider |-> Str("made_up"), token |-> Str("sk-test"), url |-> Null],
      [provider |-> Str("openai"), token |-> Str(""), url |-> Str("https://proxy")] }

Prompts == {Undefined, Str("say hi")}

MessageLists ==
    { << [role |-> "user", content |-> "hi"] >>,
      << [role |-> "system", content |-> "be brief"],
         [role |-> "user", content |-> "hi"] >> }

ToolDefinitions(defs) == [toolDefinitions |-> defs]

WellFormedTool ==
    [name |-> "get_weather", description |-> "weather of a city",
     parameters |-> [type |-> "object", properties |-> {"city"}]]

MalformedTool ==
    [name |-> "broken", description |-> "no object schema",
     parameters |-> [type |-> "string", properties |-> {}]]

Configs ==
    { [model |-> Str("gpt-test")],
      [model |-> Str("gpt-4o"), temperature |-> Str("0.7"),
       tools |-> ToolDefinitions({WellFormedTool}),
       cacheControl |-> Bool(TRUE),
       providerOptions |-> Str("openai: { store: true }"),
       schema |-> Str("schema of the config")],
      [model |-> Str("gpt-4o"),
       tools |-> ToolDefinitions({WellFormedTool, MalformedTool}),
       cacheControl |-> Null],
      [model |-> Str("gpt-4o"), maxTokens |-> Str("100"),
       prompt |-> Str("prompt of the config"),
       messages |-> << [role |-> "user", content |-> "from the config"] >>,
       abortSignal |-> [signal |-> "of the config"],
       experimental_telemetry |-> [isEnabled |-> FALSE],
       output |-> Str("no-schema")] }

Schemas == {Undefined, [type |-> "object", properties |-> {"answer"}]}

Outputs == {Undefined, Str("object"), Str("array")}

CustomLanguageModels == {Undefined, [languageModel |-> "custom"]}

AbortSignals == {Undefined, [signal |-> "of the caller"]}

\* a function of the streaming backend: the production one or an injected one
BackendFn(name, impl) == [fn |-> name, impl |-> impl]

\* aiSdkProvider?: Partial<AISDKProvider>
AiSdkProviders ==
    { Undefined,
      [streamText |-> BackendFn("streamText", "injected")],
      [streamObject |-> BackendFn("streamObject", "injected")],
      [streamText |-> BackendFn("streamText", "injected"),
       streamObject |-> BackendFn("streamObject", "injected")] }

DEFAULT_AI_SDK_PROVIDER ==
    [streamText |-> BackendFn("streamText", "default"),
     streamObject |-> BackendFn("streamObject", "default")]

-----------------------------------------------------------------------------
(* The collaborators of ai()                                               *)

\* what a collaborator may throw
Exceptions ==
    { [name |-> "APICallError", message |-> "rate limited"],
      [name |-> "LoadAPIKeyError", message |-> "API key is missing"],
      [name |-> "TypeError", message |-> "x is not a function"] }

\* handleAICallAPIError: the error translator
handleAICallAPIError(e) ==
    ResultError(ChainError(
        CASE e.name = "APICallError" -> AIRunError
          [] e.name = "LoadAPIKeyError" -> AIProviderConfigError
          [] OTHER -> UnknownError,
        e.message))

RuleMessages == {"system messages are not supported", "empty message"}

RECURSIVE SeqsUpTo(_, _)
\* the sequences over S of length at most n
SeqsUpTo(S, n) ==
    IF n = 0 THEN {<<>>}
    ELSE LET shorter == SeqsUpTo(S, n - 1)
         IN  shorter \cup {Append(q, x) : q \in shorter, x \in S}

RuleViolation(m) == [ruleMessage |-> m]

RewriteMessage(m) == [m EXCEPT !.role = IF @ = "system" THEN "user" ELSE @]

\* applyAllRules: the rule engine returns the violations it found and the
\* messages and config, as given or rewritten for the provider
applyAllRules(providerType, messages, config) ==
    { [rules |-> [i \in 1..Len(vs) |-> RuleViolation(vs[i])],
       messages |-> ms, config |-> cfg] :
        vs \in SeqsUpTo(RuleMessages, MaxViolations),
        ms \in {messages, [i \in 1..Len(messages) |-> RewriteMessage(messages[i])]},
        cfg \in {config, Spread(config, [temperature |-> Str("1")])} }

\* createProvider: the adapter factory of a known provider with credentials,
\* a configuration error otherwise
createProvider(p) ==
    IF p.provider.provider \in KnownProviders /\ Truthy(p.apiKey)
    THEN ResultOk([adapter |-> p.provider.provider, url |-> p.url])
    ELSE ResultError(ChainError(AIProviderConfigError,
                                "Provider is not configured"))

\* providerAdapter(model, options): the language-model handle
providerAdapter(adapter, model, options) ==
    [languageModel |-> "adapter", of |-> adapter, modelId |-> model,
     settings |-> options]

\* buildTools: all the tools or none
buildTools(tools) ==
    IF tools \in {Undefined, Null} THEN ResultOk([registry |-> {}])
    ELSE IF \E t \in tools.toolDefinitions : t.parameters.type # "object"
    THEN ResultError(ChainError(AIRunError, "Invalid tool schema"))
    ELSE ResultOk([registry |->
            { [name |-> t.name, description |-> t.description,
               parameters |-> [jsonSchema |-> t.parameters]] :
              t \in tools.toolDefinitions }])

\* jsonSchema(schema) of the ai package
jsonSchema(s) == [jsonSchema |-> s]

\* smoothStream() of the ai package
smoothStream == [transform |-> "smoothStream"]

\* the chunks a stub backend may stream
Chunks == {"He", "llo"}

\* streamText / streamObject: the result object of one call, the n-th call
\* of the invocation, that will stream the given chunks
BackendResult(n, fn, chunks) ==
    [call |-> n, fn |-> fn, pending |-> chunks, emitted |-> <<>>]

Pending == [pending |-> TRUE]

\* the fields of the result object of call n, by reference
Field(n, name) == [ref |-> name, call |-> n]

\* the value an eventual field of the stream's result object has settled to
Eventual(st, name) ==
    IF st.pending # <<>> THEN Pending
    ELSE IF name = "text" THEN Str(Join(st.emitted, ""))
    ELSE [settled |-> name, call |-> st.call]

-----------------------------------------------------------------------------
(* ai(), index.ts 85-216                                                   *)

\* a call of a collaborator; impl tells the backend functions apart
Called(fn, impl, a) == [fn |-> fn, impl |-> impl, args |-> a]

\* the production functions spread over the injected ones
ResolveBackend_DefaultsLast(sdk) ==
    Spread(IF Truthy(sdk) THEN sdk ELSE EmptyObject, defaultAiSdkProvider)

\* 115-118: the backend functions of this invocation
ResolveBackend(sdk) ==
    Spread(defaultAiSdkProvider, IF Truthy(sdk) THEN sdk ELSE EmptyObject)

\* the injected functions assigned into the module-level object
WrittenByResolve_Assigned(default, sdk) ==
    Spread(default, IF Truthy(sdk) THEN sdk ELSE EmptyObject)

\* 115-118: what the resolution leaves in DEFAULT_AI_SDK_PROVIDER; the
\* spread copies its entries into a new object and writes nothing
WrittenByResolve(default, sdk) == default

\* the try opened after the rule engine has run
TryBlock_AfterRules ==
    {"createProvider", "providerAdapter", "buildTools", "dispatch"}

\* 119 and 213: the calls the try block encloses
TryBlock ==
    {"applyAllRules", "createProvider", "providerAdapter", "buildTools",
     "dispatch"}

HasViolations_OffByOne(r) == Len(r.rules) > 1

\* 126
HasViolations(r) == Len(r.rules) > 0

\* the message of the violation without its prefix
ViolationLine_Unprefixed(v) == v.ruleMessage

\* 132: one violation as a line of the message
ViolationLine(v) == "- " \o v.ruleMessage

\* 127-134
ViolationsError(r) ==
    ResultError(ChainError(AIRunError,
        "There are rule violations:\n" \o Join([i \in 1..Len(r.rules) |-> ViolationLine(r.rules[i])], "\n")))

\* 142-148
CreateProviderArgs(p, r) ==
    [messages |-> r.messages, provider |-> p, apiKey |-> p.token,
     url |-> Nullish(p.url, Undefined), config |-> r.config]

\* the result of createProvider used unchecked
ProviderFailed_Unchecked(r) == FALSE

\* 149: `if (providerAdapterResult.error) return providerAdapterResult`
ProviderFailed(r) == Truthy(r.error)

\* the result of buildTools used unchecked
ToolsFailed_Unchecked(r) == FALSE

\* 162: `if (toolsResult.error) return toolsResult`
ToolsFailed(r) == Truthy(r.error)

\* 152: is the caller's handle used?
UsesCustomLanguageModel(custom) == Truthy(custom)

\* 155-159: the options given to the adapter
AdapterOptions(config) ==
    Spread([cacheControl |-> Nullish(Get(config, "cacheControl"), Bool(FALSE))],
           omit(config, {"providerOptions"}))

\* the config with its schema left in
schemaLessConfig_SchemaKept(config) == config

\* the caller's config in place of the rule engine's
schemaLessConfig_OfOriginal(config) == omit(originalConfig, {"schema"})

\* 164
schemaLessConfig(config) == omit(config, {"schema"})

\* model and tools left as the config has them
commonOptions_RawModelAndTools(config, model, p, messages, tools, signal) ==
    Spread(schemaLessConfig(config),
           [prompt |-> p,
            messages |-> messages,
            abortSignal |-> signal,
            providerOptions |-> Get(config, "providerOptions"),
            experimental_telemetry |-> [isEnabled |-> TRUE]])

\* the config spread after the options of the orchestrator
commonOptions_ConfigLast(config, model, p, messages, tools, signal) ==
    Spread([model |-> model,
            prompt |-> p,
            messages |-> messages,
            tools |-> tools,
            abortSignal |-> signal,
            providerOptions |-> Get(config, "providerOptions"),
            experimental_telemetry |-> [isEnabled |-> TRUE]],
           schemaLessConfig(config))

\* 165-176
commonOptions(config, model, p, messages, tools, signal) ==
    Spread(schemaLessConfig(config),
           [model |-> model,
            prompt |-> p,
            messages |-> messages,
            tools |-> tools,
            abortSignal |-> signal,
            providerOptions |-> Get(config, "providerOptions"),
            experimental_telemetry |-> [isEnabled |-> TRUE]])

\* `schema || output` in place of `schema && output`
IsObjectMode_Either(s, o) == Truthy(s) \/ Truthy(o)

\* 178
IsObjectMode(s, o) == Truthy(s) /\ Truthy(o)

\* 179-186
StreamObjectOptions(common, s, o) ==
    Spread(common, [schema |-> jsonSchema(s), output |-> o])

\* 198-201
StreamTextOptions(common) ==
    Spread(common, [experimental_transform |-> smoothStream])

\* the object branch without its return: it falls through to streamText
DispatchCalls_FallThrough(common, s, o, fText, fObject) ==
    (IF IsObjectMode(s, o)
     THEN << Called("streamObject", fObject.impl, StreamObjectOptions(common, s, o)) >>
     ELSE << >>)
    \o << Called("streamText", fText.impl, StreamTextOptions(common)) >>

\* 178-186 and 198-201: the calls of the streaming backend one invocation
\* makes, in order
DispatchCalls(common, s, o, fText, fObject) ==
    IF IsObjectMode(s, o)
    THEN << Called("streamObject", fObject.impl, StreamObjectOptions(common, s, o)) >>
    ELSE << Called("streamText", fText.impl, StreamTextOptions(common)) >>

\* the object result tagged as the text result is
AIReturnObject_TaggedText(result, providerType) ==
    [fullStream |-> Field(result.call, "fullStream"),
     object |-> Field(result.call, "object"),
     usage |-> Field(result.call, "usage"),
     providerMetadata |-> Field(result.call, "providerMetadata"),
     type |-> "text",
     providerName |-> providerType]

\* 188-195
AIReturnObject(result, providerType) ==
    [fullStream |-> Field(result.call, "fullStream"),
     object |-> Field(result.call, "object"),
     usage |-> Field(result.call, "usage"),
     providerMetadata |-> Field(result.call, "providerMetadata"),
     type |-> "object",
     providerName |-> providerType]

\* the eventual text taken from a call of its own
AIReturnText_TextOfAnotherCall(result, providerType) ==
    [fullStream |-> Field(result.call, "fullStream"),
     text |-> Field(result.call + 1, "text"),
     reasoning |-> Field(result.call, "reasoning"),
     usage |-> Field(result.call, "usage"),
     toolCalls |-> Field(result.call, "toolCalls"),
     providerMetadata |-> Field(result.call, "providerMetadata"),
     type |-> "text",
     providerName |-> providerType]

\* the text result named after the model of the config
AIReturnText_NamedAfterModel(result, providerType) ==
    [fullStream |-> Field(result.call, "fullStream"),
     text |-> Field(result.call, "text"),
     reasoning |-> Field(result.call, "reasoning"),
     usage |-> Field(result.call, "usage"),
     toolCalls |-> Field(result.call, "toolCalls"),
     providerMetadata |-> Field(result.call, "providerMetadata"),
     type |-> "text",
     providerName |-> rule.config.model]

\* 203-212
AIReturnText(result, providerType) ==
    [fullStream |-> Field(result.call, "fullStream"),
     text |-> Field(result.call, "text"),
     reasoning |-> Field(result.call, "reasoning"),
     usage |-> Field(result.call, "usage"),
     toolCalls |-> Field(result.call, "toolCalls"),
     providerMetadata |-> Field(result.call, "providerMetadata"),
     type |-> "text",
     providerName |-> providerType]

\* the keys deleted from the object itself
LeftByOmit_Deleted(obj, keys) == omit(obj, keys)

\* 158, 164: what omit() leaves of the object it is given; lodash omit
\* builds a new object and writes nothing to its argument
LeftByOmit(obj, keys) == obj

\* 158, 164: omit() is given the config of the rule engine, which is the
\* caller's own object when the engine handed it back as it was
OmitOfConfig(keys) ==
    /\ rule' = [rule EXCEPT !.config = LeftByOmit(@, keys)]
    /\ originalConfig' = IF rule.config = originalConfig
                         THEN LeftByOmit(originalConfig, keys)
                         ELSE originalConfig

\* an exception thrown at a stage: 213-215 when the try block encloses the
\* stage, out of ai() otherwise
Throw(stage, e) ==
    /\ pc' = "done"
    /\ IF stage \in TryBlock
       THEN /\ returned' = handleAICallAPIError(e)
            /\ handled' = Append(handled, e)
            /\ raised' = FALSE
       ELSE /\ returned' = Undefined
            /\ handled' = handled
            /\ raised' = TRUE

Return(r) ==
    /\ pc' = "done"
    /\ returned' = r
    /\ UNCHANGED <<handled, raised>>

Continue(stage) ==
    /\ pc' = stage
    /\ UNCHANGED <<returned, handled, raised>>

-----------------------------------------------------------------------------
(* The state machine                                                       *)

Init ==
    /\ provider = Undefined
    /\ prompt = Undefined
    /\ originalMessages = <<>>
    /\ originalConfig = Undefined
    /\ schema = Undefined
    /\ output = Undefined
    /\ customLanguageModel = Undefined
    /\ aiSdkProvider = Undefined
    /\ abortSignal = Undefined
    /\ streamText = Undefined
    /\ streamObject = Undefined
    /\ rule = Undefined
    /\ providerAdapterResult = Undefined
    /\ languageModel = Undefined
    /\ toolsResult = Undefined
    /\ pc = "idle"
    /\ returned = Undefined
    /\ raised = FALSE
    /\ calls = <<>>
    /\ handled = <<>>
    /\ stream = Undefined
    /\ consumed = <<>>
    /\ defaultAiSdkProvider = DEFAULT_AI_SDK_PROVIDER
    /\ others = 0

\* 85-118: ai() is called
Call ==
    /\ pc = "idle"
    /\ provider' \in ProviderDescriptors
    /\ prompt' \in Prompts
    /\ originalMessages' \in MessageLists
    /\ originalConfig' \in Configs
    /\ schema' \in Schemas
    /\ output' \in Outputs
    /\ customLanguageModel' \in CustomLanguageModels
    /\ aiSdkProvider' \in AiSdkProviders
    /\ abortSignal' \in AbortSignals
    /\ streamText' = ResolveBackend(aiSdkProvider').streamText
    /\ streamObject' = ResolveBackend(aiSdkProvider').streamObject
    /\ defaultAiSdkProvider' =
          WrittenByResolve(defaultAiSdkProvider, aiSdkProvider')
    /\ pc' = "applyAllRules"
    /\ UNCHANGED <<rule, providerAdapterResult, languageModel, toolsResult,
                   returned, raised, calls, handled, stream, consumed, others>>

\* 120-135
ApplyAllRules ==
    /\ pc = "applyAllRules"
    /\ LET a == [providerType |-> provider.provider,
                 messages |-> originalMessages,
                 config |-> originalConfig]
       IN  /\ calls' = Append(calls, Called("applyAllRules", "module", a))
           /\ \/ \E r \in applyAllRules(a.providerType, a.messages, a.config) :
                    /\ rule' = r
                    /\ IF HasViolations(r)
                       THEN Return(ViolationsError(r))
                       ELSE Continue("createProvider")
              \/ \E e \in Exceptions :
                    /\ Throw("applyAllRules", e)
                    /\ rule' = rule
    /\ UNCHANGED args
    /\ UNCHANGED module
    /\ UNCHANGED <<streamText, streamObject, providerAdapterResult,
                   languageModel, toolsResult, stream, consumed>>

\* 137-149
CreateProvider ==
    /\ pc = "createProvider"
    /\ LET a == CreateProviderArgs(provider, rule)
       IN  /\ calls' = Append(calls, Called("createProvider", "module", a))
           /\ \/ /\ providerAdapterResult' = createProvider(a)
                 /\ IF ProviderFailed(providerAdapterResult')
                    THEN Return(providerAdapterResult')
                    ELSE Continue("providerAdapter")
              \/ \E e \in Exceptions :
                    /\ Throw("createProvider", e)
                    /\ providerAdapterResult' = providerAdapterResult
    /\ UNCHANGED args
    /\ UNCHANGED module
    /\ UNCHANGED <<streamText, streamObject, rule, languageModel, toolsResult,
                   stream, consumed>>

\* 151-159
ResolveLanguageModel ==
    /\ pc = "providerAdapter"
    /\ IF UsesCustomLanguageModel(customLanguageModel)
       THEN /\ languageModel' = customLanguageModel
            /\ calls' = calls
            /\ Continue("buildTools")
            /\ UNCHANGED <<rule, originalConfig>>
       ELSE LET m == rule.config.model
                o == AdapterOptions(rule.config)
            IN  /\ OmitOfConfig({"providerOptions"})
                /\ calls' = Append(calls,
                       Called("providerAdapter", "module",
                              [model |-> m, options |-> o]))
                /\ \/ /\ languageModel' =
                            providerAdapter(providerAdapterResult.value, m, o)
                      /\ Continue("buildTools")
                   \/ \E e \in Exceptions :
                         /\ Throw("providerAdapter", e)
                         /\ languageModel' = languageModel
    /\ UNCHANGED argsButConfig
    /\ UNCHANGED module
    /\ UNCHANGED <<streamText, streamObject, providerAdapterResult,
                   toolsResult, stream, consumed>>

\* 161-162
BuildTools ==
    /\ pc = "buildTools"
    /\ LET tools == Get(rule.config, "tools")
       IN  /\ calls' = Append(calls, Called("buildTools", "module", tools))
           /\ \/ /\ toolsResult' = buildTools(tools)
                 /\ IF ToolsFailed(toolsResult')
                    THEN Return(toolsResult')
                    ELSE Continue("dispatch")
              \/ \E e \in Exceptions :
                    /\ Throw("buildTools", e)
                    /\ toolsResult' = toolsResult
    /\ UNCHANGED args
    /\ UNCHANGED module
    /\ UNCHANGED <<streamText, streamObject, rule, providerAdapterResult,
                   languageModel, stream, consumed>>

\* 164-212
Dispatch ==
    /\ pc = "dispatch"
    /\ LET common == commonOptions(rule.config, languageModel, prompt,
                                   rule.messages, toolsResult.value, abortSignal)
           providerType == provider.provider
       IN  /\ OmitOfConfig({"schema"})
           /\ calls' = calls \o DispatchCalls(common, schema, output,
                                              streamText, streamObject)
           /\ \/ \E chunks \in SeqsUpTo(Chunks, MaxChunks) :
                    IF IsObjectMode(schema, output)
                    THEN /\ stream' = BackendResult(Len(calls'), streamObject, chunks)
                         /\ Return(ResultOk(AIReturnObject(stream', providerType)))
                    ELSE /\ stream' = BackendResult(Len(calls'), streamText, chunks)
                         /\ Return(ResultOk(AIReturnText(stream', providerType)))
              \/ \E e \in Exceptions :
                    /\ Throw("dispatch", e)
                    /\ stream' = stream
    /\ UNCHANGED argsButConfig
    /\ UNCHANGED module
    /\ UNCHANGED <<streamText, streamObject, providerAdapterResult,
                   languageModel, toolsResult, consumed>>

\* the caller reads the next chunk of the fullStream of the result
ReadFullStream ==
    /\ pc = "done"
    /\ returned # Undefined
    /\ returned.ok
    /\ stream # Undefined
    /\ returned.value.fullStream.call = stream.call
    /\ stream.pending # <<>>
    /\ consumed' = Append(consumed, Head(stream.pending))
    /\ stream' = [stream EXCEPT !.pending = Tail(@),
                                !.emitted = Append(@, Head(stream.pending))]
    /\ UNCHANGED args
    /\ UNCHANGED module
    /\ UNCHANGED locals
    /\ UNCHANGED <<pc, returned, raised, calls, handled>>

\* the caller is done with the result; the next invocation starts with
\* nothing of this one
Release ==
    /\ pc = "done"
    /\ provider' = Undefined
    /\ prompt' = Undefined
    /\ originalMessages' = <<>>
    /\ originalConfig' = Undefined
    /\ schema' = Undefined
    /\ output' = Undefined
    /\ customLanguageModel' = Undefined
    /\ aiSdkProvider' = Undefined
    /\ abortSignal' = Undefined
    /\ streamText' = Undefined
    /\ streamObject' = Undefined
    /\ rule' = Undefined
    /\ providerAdapterResult' = Undefined
    /\ languageModel' = Undefined
    /\ toolsResult' = Undefined
    /\ pc' = "idle"
    /\ returned' = Undefined
    /\ raised' = FALSE
    /\ calls' = <<>>
    /\ handled' = <<>>
    /\ stream' = Undefined
    /\ consumed' = <<>>
    /\ UNCHANGED module

\* another invocation of ai() runs beside this one.  ai() has no await, so
\* its body runs between two steps of the program and never inside the body
\* of this invocation: before this one is called, or after it has returned
\* and while its stream is read.  Its parameters and locals are its own
\* (85-161); the module-level object is all it shares with this one.
OtherInvocation ==
    /\ pc \in {"idle", "done"}
    /\ others < MaxOthers
    /\ \E sdk \in AiSdkProviders :
          defaultAiSdkProvider' = WrittenByResolve(defaultAiSdkProvider, sdk)
    /\ others' = others + 1
    /\ UNCHANGED args
    /\ UNCHANGED locals
    /\ UNCHANGED <<pc, returned, raised, calls, handled, stream, consumed>>

Next ==
    \/ Call
    \/ ApplyAllRules
    \/ CreateProvider
    \/ ResolveLanguageModel
    \/ BuildTools
    \/ Dispatch
    \/ ReadFullStream
    \/ Release
    \/ OtherInvocation

Spec == Init /\ [][Next]_vars

-----------------------------------------------------------------------------
(* What the claims speak of                                                *)

BackendFns == {"streamText", "streamObject"}

\* how many calls of fn this invocation has made
CountCalls(fn) == Cardinality({i \in DOMAIN calls : calls[i].fn = fn})

BackendCallCount == CountCalls("streamText") + CountCalls("streamObject")

Succeeded == pc = "done" /\ returned # Undefined /\ returned.ok

Failed == pc = "done" /\ returned # Undefined /\ ~returned.ok

\* the rule engine returned, and returned violations
Violated == rule # Undefined /\ Len(rule.rules) > 0

\* the rule engine returned, and returned no violation
Validated == rule # Undefined /\ Len(rule.rules) = 0

\* C1: whenever applyAllRules has returned one or more violations, the
\* invocation has ended with Result.error of code AIRunError, the call of
\* the rule engine is the only call it made (no createProvider, adapter,
\* buildTools, streamText or streamObject), and nothing was resolved, built
\* or streamed from the rule-transformed messages and config.
C1_ViolationsEndTheInvocation ==
    Violated =>
        /\ Failed
        /\ ~raised
        /\ returned.error.code = AIRunError
        /\ Len(calls) = 1
        /\ calls[1].fn = "applyAllRules"
        /\ \A fn \in {"createProvider", "providerAdapter", "buildTools",
                      "streamText", "streamObject"} : CountCalls(fn) = 0
        /\ providerAdapterResult = Undefined
        /\ languageModel = Undefined
        /\ toolsResult = Undefined
        /\ stream = Undefined

C1_Witness ==
    /\ Violated
    /\ pc = "done"
    /\ Len(rule.rules) = 2
    /\ rule.config # originalConfig
    /\ rule.messages # originalMessages
    /\ returned.error.code = AIRunError

\* C2: an invocation calls the streaming backend at most once; one that
\* returned a success made exactly one call, to one of streamText and
\* streamObject; one that returned an error and whose last call was to the
\* rule engine, createProvider, the adapter or buildTools made none.
C2_AtMostOneBackendCall ==
    /\ BackendCallCount <= 1
    /\ Succeeded =>
          /\ BackendCallCount = 1
          /\ calls[Len(calls)].fn \in BackendFns
          /\ \A i \in 1..(Len(calls) - 1) : calls[i].fn \notin BackendFns
    /\ (Failed /\ calls[Len(calls)].fn \notin BackendFns) => BackendCallCount = 0

C2_Witness ==
    /\ Succeeded
    /\ CountCalls("streamObject") = 1
    /\ CountCalls("streamText") = 0
    /\ Len(calls) = 5

\* no step after validation failed: createProvider and buildTools returned
\* no error and no collaborator threw
NothingFailed ==
    /\ handled = <<>>
    /\ ~raised
    /\ providerAdapterResult # Undefined
    /\ ~Truthy(providerAdapterResult.error)
    /\ toolsResult # Undefined
    /\ ~Truthy(toolsResult.error)

\* the call of the streaming backend that made the stream
StreamCall == calls[stream.call]

\* C3, as claimed: every finished invocation with zero rule violations and
\* both a schema and an output mode returned a success of type 'object',
\* and did not call streamText.
C3_Original ==
    (pc = "done" /\ Validated /\ Truthy(schema) /\ Truthy(output)) =>
        /\ returned # Undefined
        /\ returned.ok
        /\ returned.value.type = "object"
        /\ CountCalls("streamText") = 0

\* C3, amended: an invocation with zero rule violations and both a schema
\* and an output mode never calls streamText; once finished, it returned a
\* success exactly when no later step failed, an error result otherwise;
\* and its success has type 'object' with fullStream, object, usage and
\* providerMetadata those of the result object of its streamObject call.
C3_ObjectModeWhenNothingFails ==
    (Validated /\ Truthy(schema) /\ Truthy(output)) =>
        /\ CountCalls("streamText") = 0
        /\ pc = "done" =>
              /\ ~raised
              /\ returned # Undefined
              /\ returned.ok <=> NothingFailed
        /\ Succeeded =>
              /\ returned.value.type = "object"
              /\ DOMAIN returned.value =
                    {"fullStream", "object", "usage", "providerMetadata",
                     "type", "providerName"}
              /\ StreamCall.fn = "streamObject"
              /\ \A f \in {"fullStream", "object", "usage", "providerMetadata"} :
                    returned.value[f] = Field(stream.call, f)

C3_Witness ==
    /\ Succeeded
    /\ Validated
    /\ Truthy(schema)
    /\ output = Str("array")
    /\ returned.value.type = "object"
    /\ CountCalls("streamObject") = 1

\* C4, as claimed: every finished invocation whose schema or output mode is
\* absent returned a result of type 'text' and did not call streamObject.
C4_Original ==
    (pc = "done" /\ ~(Truthy(schema) /\ Truthy(output))) =>
        /\ returned # Undefined
        /\ returned.ok
        /\ returned.value.type = "text"
        /\ CountCalls("streamObject") = 0

\* C4, amended: an invocation whose schema or output mode (or both) is
\* absent never calls streamObject; once finished, it returned a success
\* exactly when validation found no violation and no later step failed, an
\* error result otherwise; and its success has type 'text' and comes from
\* its streamText call.  A request with only one of schema and output is
\* served in free-text mode.
C4_TextModeWhenNothingFails ==
    (pc # "idle" /\ ~(Truthy(schema) /\ Truthy(output))) =>
        /\ CountCalls("streamObject") = 0
        /\ pc = "done" =>
              /\ ~raised
              /\ returned # Undefined
              /\ returned.ok <=> (Validated /\ NothingFailed)
        /\ Succeeded =>
              /\ returned.value.type = "text"
              /\ StreamCall.fn = "streamText"

C4_Witness ==
    /\ Succeeded
    /\ Truthy(schema)
    /\ output = Undefined
    /\ returned.value.type = "text"
    /\ CountCalls("streamText") = 1

\* C5: no exception escapes ai(): whichever collaborator throws, the
\* exception was handed to handleAICallAPIError and ai() returned what the
\* translator made of it; every finished invocation returned a Result,
\* tagged success or error.
C5_NeverRaises ==
    /\ ~raised
    /\ pc = "done" =>
          /\ returned # Undefined
          /\ returned.ok \in BOOLEAN
          /\ returned.ok => returned.error = Undefined
          /\ ~returned.ok => returned.error.name = "ChainError"
    /\ Len(handled) <= 1
    /\ handled # <<>> =>
          /\ pc = "done"
          /\ returned = handleAICallAPIError(handled[1])

\* the rule engine threw, and ai() returned the translated error
C5_Witness ==
    /\ pc = "done"
    /\ Len(handled) = 1
    /\ Len(calls) = 1
    /\ calls[1].fn = "applyAllRules"
    /\ rule = Undefined
    /\ ~returned.ok

\* C6, as claimed: an invocation given a customLanguageModel calls neither
\* createProvider nor the provider adapter, does not return the error of a
\* provider descriptor that cannot be resolved, and passes the given handle
\* to the backend as `model`.
C6_CustomModelBypassesResolution ==
    (pc = "done" /\ Validated /\ Truthy(customLanguageModel)) =>
        /\ CountCalls("createProvider") = 0
        /\ CountCalls("providerAdapter") = 0
        /\ LET r == createProvider(CreateProviderArgs(provider, rule))
           IN  ProviderFailed(r) => returned # r
        /\ Succeeded => StreamCall.args.model = customLanguageModel

\* the one call of the streaming backend, once it is made
BackendCall == calls[Len(calls)]

\* the keys ai() sets itself in the options of the backend call
OrchestratorKeys(fn) ==
    {"model", "prompt", "messages", "tools", "abortSignal", "providerOptions",
     "experimental_telemetry"}
    \cup (IF fn = "streamObject" THEN {"schema", "output"}
          ELSE {"experimental_transform"})

\* C8, as claimed: the backend call is given the rule-transformed messages,
\* and every field of the rule-transformed config, with its value.
C8_Original ==
    BackendCallCount = 1 =>
        /\ BackendCall.args.messages = rule.messages
        /\ \A k \in DOMAIN rule.config :
              /\ k \in DOMAIN BackendCall.args
              /\ BackendCall.args[k] = rule.config[k]

\* C8, amended: the backend call is given the rule-transformed messages
\* unchanged, and every field of the rule-transformed config unchanged
\* except those named as a key ai() sets itself, and except `schema`, which
\* is dropped in free-text mode and replaced in schema-constrained mode; the
\* options hold no other key than the config's and those ai() sets.
C8_RuleTransformedPassedThrough ==
    BackendCallCount = 1 =>
        LET o == BackendCall.args
            fn == BackendCall.fn
        IN  /\ o.messages = rule.messages
            /\ \A k \in (DOMAIN rule.config) \ (OrchestratorKeys(fn) \cup {"schema"}) :
                  /\ k \in DOMAIN o
                  /\ o[k] = rule.config[k]
            /\ o.providerOptions = Get(rule.config, "providerOptions")
            /\ DOMAIN o =
                  ((DOMAIN rule.config) \ {"schema"}) \cup OrchestratorKeys(fn)

\* the rule engine rewrote both, and the config has a schema to drop
C8_Witness ==
    /\ BackendCallCount = 1
    /\ rule.config # originalConfig
    /\ rule.messages # originalMessages
    /\ "schema" \in DOMAIN rule.config
    /\ BackendCall.args.temperature = Str("1")
    /\ BackendCall.args.messages = rule.messages

\* the value of a field of the result of ai()
Deref(f) ==
    IF stream # Undefined /\ f.call = stream.call
    THEN Eventual(stream, f.ref)
    ELSE [dangling |-> f]

\* C9: in a success result, fullStream and every eventual field are fields
\* of the result object of the one backend call of the invocation; what the
\* caller has read from fullStream is what that call has streamed, in order;
\* the eventual text is pending until the stream is read to its end and is
\* then the concatenation of the chunks read: 'He', 'llo' give 'Hello'.
C9_StreamAndFieldsOfOneCall ==
    Succeeded =>
        /\ BackendCallCount = 1
        /\ stream.call = Len(calls)
        /\ \A f \in (DOMAIN returned.value) \ {"type", "providerName"} :
              returned.value[f] = Field(stream.call, f)
        /\ consumed = stream.emitted
        /\ returned.value.type = "text" =>
              /\ stream.pending # <<>> => Deref(returned.value.text) = Pending
              /\ stream.pending = <<>> =>
                    Deref(returned.value.text) = Str(Join(consumed, ""))
              /\ (stream.pending = <<>> /\ consumed = <<"He", "llo">>) =>
                    Deref(returned.value.text) = Str("Hello")
        /\ returned.value.type = "object" =>
              /\ stream.pending # <<>> => Deref(returned.value.object) = Pending
              /\ stream.pending = <<>> =>
                    Deref(returned.value.object) =
                        [settled |-> "object", call |-> Len(calls)]

C9_Witness ==
    /\ Succeeded
    /\ returned.value.type = "text"
    /\ originalConfig = [model |-> Str("gpt-test")]
    /\ schema = Undefined
    /\ consumed = <<"He", "llo">>
    /\ stream.pending = <<>>
    /\ Deref(returned.value.text) = Str("Hello")

\* C10: whenever buildTools has returned an error, the invocation has ended
\* and returned that very result, nothing was handed to
\* handleAICallAPIError, and neither streamText nor streamObject was called.
C10_ToolErrorReturnedAsIs ==
    (toolsResult # Undefined /\ Truthy(toolsResult.error)) =>
        /\ pc = "done"
        /\ returned = toolsResult
        /\ returned = buildTools(Get(rule.config, "tools"))
        /\ handled = <<>>
        /\ ~raised
        /\ BackendCallCount = 0
        /\ stream = Undefined

C10_Witness ==
    /\ pc = "done"
    /\ toolsResult # Undefined
    /\ Truthy(toolsResult.error)
    /\ returned.error.code = AIRunError
    /\ calls[Len(calls)].fn = "buildTools"
    /\ CountCalls("providerAdapter") = 1

\* the place of a collaborator in the order of the stages: validating (1),
\* resolving (2 createProvider, 3 the adapter), building tools (4),
\* dispatching (5)
StageRank(fn) ==
    CASE fn = "applyAllRules" -> 1
      [] fn = "createProvider" -> 2
      [] fn = "providerAdapter" -> 3
      [] fn = "buildTools" -> 4
      [] fn \in BackendFns -> 5

\* the invocation has got as far as stage n
Entered(n) == \E i \in DOMAIN calls : StageRank(calls[i].fn) >= n

\* C11: the calls of an invocation follow the order validating, resolving,
\* building tools, dispatching, each stage at most once and none skipped
\* but the adapter call a custom handle replaces; a stage is entered only
\* when every earlier one has completed without error; a stage that fails
\* is the last one entered, and the invocation has ended with an error.
C11_StagesInOrder ==
    /\ \A i, j \in DOMAIN calls :
          i < j => StageRank(calls[i].fn) < StageRank(calls[j].fn)
    /\ \A i \in DOMAIN calls :
          i > 1 => StageRank(calls[i].fn) - StageRank(calls[i - 1].fn)
                      \in (IF calls[i].fn = "buildTools" THEN {1, 2} ELSE {1})
    /\ calls # <<>> => calls[1].fn = "applyAllRules"
    /\ (Entered(2) \/ pc \in {"createProvider", "providerAdapter",
                              "buildTools", "dispatch"}) => Validated
    /\ (Entered(3) \/ pc \in {"providerAdapter", "buildTools", "dispatch"}) =>
          /\ providerAdapterResult # Undefined
          /\ providerAdapterResult.ok
    /\ (Entered(4) \/ pc \in {"buildTools", "dispatch"}) =>
          /\ languageModel # Undefined
          /\ CountCalls("providerAdapter") =
                (IF Truthy(customLanguageModel) THEN 0 ELSE 1)
    /\ (Entered(5) \/ pc = "dispatch") =>
          /\ toolsResult # Undefined
          /\ toolsResult.ok
    /\ (rule # Undefined /\ Violated) =>
          pc = "done" /\ ~returned.ok /\ ~Entered(2)
    /\ (providerAdapterResult # Undefined /\ ~providerAdapterResult.ok) =>
          pc = "done" /\ ~returned.ok /\ ~Entered(3)
    /\ (toolsResult # Undefined /\ ~toolsResult.ok) =>
          pc = "done" /\ ~returned.ok /\ ~Entered(5)
    /\ handled # <<>> =>
          /\ pc = "done"
          /\ ~returned.ok
          /\ (rule = Undefined) = ~Entered(2)
          /\ (providerAdapterResult = Undefined) = ~Entered(3)
          /\ (toolsResult = Undefined) = ~Entered(5)

\* all four stages in order, the adapter included
C11_Witness ==
    /\ Succeeded
    /\ Len(calls) = 5
    /\ calls[1].fn = "applyAllRules"
    /\ calls[2].fn = "createProvider"
    /\ calls[3].fn = "providerAdapter"
    /\ calls[4].fn = "buildTools"
    /\ calls[5].fn = "streamText"

\* the backend functions an invocation with these arguments resolves when no
\* other invocation has run
AloneBackend ==
    Spread(DEFAULT_AI_SDK_PROVIDER,
           IF Truthy(aiSdkProvider) THEN aiSdkProvider ELSE EmptyObject)

RECURSIVE LinesOf(_)
\* every violation on a line of its own, in order, each after a line break
LinesOf(rules) ==
    IF rules = <<>> THEN ""
    ELSE "\n" \o "- " \o Head(rules).ruleMessage \o LinesOf(Tail(rules))

\* C13: the message of the error returned on rule violations is the line
\* 'There are rule violations:' and then, for every violation in the order
\* of the rule engine, a line made of '- ' and its ruleMessage, neither less
\* nor more.
C13_ViolationMessageListsEveryRule ==
    (rule # Undefined /\ Len(rule.rules) > 0) =>
        /\ Failed
        /\ returned.error.code = AIRunError
        /\ returned.error.message =
              "There are rule violations:" \o LinesOf(rule.rules)
        /\ (rule.rules = << RuleViolation("empty message"),
                            RuleViolation("system messages are not supported") >>) =>
              returned.error.message =
                 "There are rule violations:\n- empty message\n- system messages are not supported"
        /\ (rule.rules = << RuleViolation("empty message"),
                            RuleViolation("empty message") >>) =>
              returned.error.message =
                 "There are rule violations:\n- empty message\n- empty message"

\* two different violations, the later of the alphabet first
C13_Witness ==
    /\ Failed
    /\ rule # Undefined
    /\ rule.rules = << RuleViolation("system messages are not supported"),
                       RuleViolation("empty message") >>
    /\ returned.error.message =
          "There are rule violations:\n- system messages are not supported\n- empty message"

\* the calls of the streaming backend this invocation has made
BackendCalls == {i \in DOMAIN calls : calls[i].fn \in BackendFns}

\* C14: the schema field of the rule-transformed config is in the options
\* of no backend call: streamObject is given the schema built by jsonSchema
\* from the schema argument of the request and the output argument of the
\* request, and the options of streamText have no schema field.
C14_ConfigSchemaNeverReachesBackend ==
    \A i \in BackendCalls :
        /\ calls[i].fn = "streamObject" =>
              /\ calls[i].args.schema = jsonSchema(schema)
              /\ calls[i].args.output = output
              /\ IsObjectMode(schema, output)
        /\ calls[i].fn = "streamText" =>
              "schema" \notin DOMAIN calls[i].args
        /\ "schema" \in DOMAIN rule.config =>
              /\ \A k \in DOMAIN calls[i].args \ {"messages"} :
                    /\ calls[i].args[k] # rule.config.schema
                    /\ calls[i].args[k] # jsonSchema(rule.config.schema)

\* streamText was called for a config that carries a schema
C14_Witness ==
    /\ Succeeded
    /\ "schema" \in DOMAIN rule.config
    /\ BackendCall.fn = "streamText"
    /\ Truthy(schema)
    /\ "temperature" \in DOMAIN BackendCall.args

\* C15: the abortSignal of every backend call, streamText or streamObject,
\* is the abortSignal argument of the invocation, undefined when the caller
\* gave none, whatever the config holds under that name.
C15_AbortSignalPassedThrough ==
    \A i \in BackendCalls :
        /\ "abortSignal" \in DOMAIN calls[i].args
        /\ calls[i].args.abortSignal = abortSignal
        /\ \A k \in DOMAIN calls[i].args \ {"abortSignal", "messages"} :
              calls[i].args[k] \notin AbortSignals \ {Undefined}

\* the caller gave no signal, the config holds one, the backend got none
C15_Witness ==
    /\ Succeeded
    /\ abortSignal = Undefined
    /\ "abortSignal" \in DOMAIN rule.config
    /\ rule.config.abortSignal # Undefined
    /\ BackendCall.fn \in BackendFns
    /\ BackendCall.args.abortSignal = Undefined

\* C16: every success carries the provider type of the descriptor of the
\* request as providerName, with a custom language model too, and is tagged
\* 'object' exactly when the backend call made was streamObject and 'text'
\* exactly when it was streamText.
C16_SuccessNamesProviderAndMode ==
    Succeeded =>
        /\ returned.value.providerName = provider.provider
        /\ BackendCallCount = 1
        /\ (returned.value.type = "object") = (BackendCall.fn = "streamObject")
        /\ (returned.value.type = "text") = (BackendCall.fn = "streamText")
        /\ returned.value.type \in {"object", "text"}

\* a text success with a custom language model, named after the descriptor
C16_Witness ==
    /\ Succeeded
    /\ Truthy(customLanguageModel)
    /\ returned.value.type = "text"
    /\ returned.value.providerName = Str("openai")
    /\ rule.config.model # Str("openai")

\* the calls of the adapter this invocation has made
AdapterCalls == {i \in DOMAIN calls : calls[i].fn = "providerAdapter"}

\* the cacheControl flag the adapter is to get for a config
CacheControlFlag(config) ==
    IF "cacheControl" \in DOMAIN config
          /\ config.cacheControl \notin {Undefined, Null}
    THEN config.cacheControl
    ELSE Bool(FALSE)

\* C17: without a custom language model the adapter is called once, and no
\* more, by an invocation that gets past resolution; it is called with the
\* model of the rule-transformed config and with options that hold every
\* field of that config but providerOptions, and a cacheControl that is the
\* one of the config when it is set and false when it is absent, undefined
\* or null.
C17_AdapterGetsConfigAndCacheControl ==
    /\ Cardinality(AdapterCalls) <= 1
    /\ (Entered(4) /\ ~Truthy(customLanguageModel)) =>
          Cardinality(AdapterCalls) = 1
    /\ \A i \in AdapterCalls :
          LET config == rule.config
              options == calls[i].args.options
          IN  /\ ~Truthy(customLanguageModel)
              /\ calls[i].args.model = config.model
              /\ "providerOptions" \notin DOMAIN options
              /\ \A k \in DOMAIN config \ {"providerOptions", "cacheControl"} :
                    k \in DOMAIN options /\ options[k] = config[k]
              /\ "cacheControl" \in DOMAIN options
              /\ options.cacheControl = CacheControlFlag(config)

C19_OrchestratorOptionsTakePrecedence ==
    \A i \in BackendCalls :
        LET a == calls[i].args
            config == rule.config
        IN  /\ {"model", "tools", "prompt", "messages", "abortSignal",
                "providerOptions", "experimental_telemetry"} \subseteq DOMAIN a
            /\ languageModel # Undefined
            /\ a.model = languageModel
            /\ toolsResult # Undefined
            /\ a.tools = toolsResult.value
            /\ \A k \in DOMAIN a \ {"messages"} :
                  /\ a[k] # config.model
                  /\ Truthy(Get(config, "tools")) => a[k] # config.tools
            /\ a.prompt = prompt
            /\ a.messages = rule.messages
            /\ a.abortSignal = abortSignal
            /\ a.providerOptions = Get(config, "providerOptions")
            /\ a.experimental_telemetry = [isEnabled |-> TRUE]

\* a config with a prompt, messages and telemetry of its own, and a backend
\* call with the prompt of the caller, the messages of the rule engine and
\* telemetry enabled
C19_Witness ==
    /\ Succeeded
    /\ {"prompt", "messages", "experimental_telemetry"} \subseteq DOMAIN rule.config
    /\ rule.config.experimental_telemetry = [isEnabled |-> FALSE]
    /\ BackendCall.fn = "streamObject"
    /\ BackendCall.args.prompt = Str("say hi")
    /\ BackendCall.args.messages # rule.config.messages
    /\ BackendCall.args.model.languageModel = "adapter"

\* the entry of the backend the mode of the request selects
SelectedEntry == IF IsObjectMode(schema, output) THEN "streamObject" ELSE "streamText"

\* the request supplies this entry of the backend
Supplied(fn) == Truthy(aiSdkProvider) /\ fn \in DOMAIN aiSdkProvider

====
